---- MODULE Spec2Model ----
(***************************************************************************)
(* aptcheckr: consistency check of an apt repository.                      *)
(*                                                                         *)
(* The model follows lib.rs (check_repo: obtain the release, construct the *)
(* AptCheck, run it, save the result) and check.rs (AptCheck::new,         *)
(* check_repo, check, check_source_component, check_binary_component,      *)
(* cross_check).  The libapt crate (Release, SourceIndex, PackageIndex,    *)
(* get_etag) is the environment: what it answers is drawn from the small   *)
(* sets below and, once answered for a component or a (component,          *)
(* architecture) pair, stays the same for the rest of the run (the         *)
(* repository snapshot does not change while it is checked).               *)
(*                                                                         *)
(* A Rust Option is a set with at most one element: None is {} and         *)
(* Some(x) is {x}.                                                         *)
(***************************************************************************)
EXTENDS Integers, Sequences, FiniteSets, TLC

\* Longest component list and longest architecture list a caller passes.
MaxSel == 2

----------------------------------------------------------------------------
(* The environment: the release, the architecture names, the indices.      *)

\* Architecture::Source, the sentinel of source findings.
Source == "Source"

\* The names a caller may pass with --arch; "bogus" names no architecture.
ArchNames == {"amd64", "source", "bogus"}

\* Architecture::from_str: the architecture a name stands for, None if none.
from_str(name) ==
    CASE name = "amd64" -> {"Amd64"}
      [] name = "arm64" -> {"Arm64"}
      [] name = "source" -> {Source}
      [] OTHER -> {}

\* The release descriptor that Release::from_distro yields.
TheRelease == [components |-> <<"main", "contrib">>,
               architectures |-> <<"Amd64", "Arm64">>]

\* The names a caller may pass with --component.
ComponentNames == {"contrib"}

\* The URLs on which get_etag fails.
Unreachable == {"pool/gone.deb", "pool/gone.dsc", "pool/gone.tar"}

\* get_etag(url): TRUE for Ok, FALSE for Err.
get_etag(url) == url \notin Unreachable

\* A dependency "name (relation version)"; relation and version are Options.
Dep(name, relation, version) ==
    [name |-> name, architecture |-> {}, relation |-> relation, version |-> version]

\* The answers of SourceIndex::new for one component: a failure, or an index
\* with its packages() list and its entries.
SourceIndexChoices ==
    { [ok |-> FALSE, names |-> <<>>, entries |-> {}],
      \* consistent: a-src 1, both links reachable
      [ok |-> TRUE, names |-> <<"a-src">>,
       entries |-> {[package |-> "a-src", version |-> 1,
                     links |-> <<"pool/a.dsc", "pool/a.tar">>]}],
      \* a-src 2 only, its links broken
      [ok |-> TRUE, names |-> <<"a-src">>,
       entries |-> {[package |-> "a-src", version |-> 2,
                     links |-> <<"pool/gone.dsc", "pool/gone.tar">>]}],
      \* the index lists a name it cannot resolve
      [ok |-> TRUE, names |-> <<"ghost-src", "a-src">>,
       entries |-> {[package |-> "a-src", version |-> 1,
                     links |-> <<"pool/a.dsc", "pool/a.tar">>]}] }

\* The answers of PackageIndex::new for one (component, architecture): a
\* failure, or an index with its packages() list and its entries.  "A" is an
\* architecture-independent package, so every architecture's index lists it.
PackageIndexChoices(architecture) ==
    { [ok |-> FALSE, names |-> <<>>, entries |-> {}],
      \* consistent: B (>= 2) is met by B 2, both links are reachable
      [ok |-> TRUE, names |-> <<"A", "B">>,
       entries |-> {[package |-> "A", version |-> 1, architecture |-> "All",
                     depends |-> <<Dep("B", {"GreaterOrEqual"}, {2})>>,
                     source |-> {"a-src"}, link |-> "pool/a.deb"],
                    [package |-> "B", version |-> 1, architecture |-> architecture,
                     depends |-> <<>>, source |-> {}, link |-> "pool/b1.deb"],
                    [package |-> "B", version |-> 2, architecture |-> architecture,
                     depends |-> <<>>, source |-> {}, link |-> "pool/b2.deb"]}],
      \* B (>= 2) is unmet, C is absent, the links are broken
      [ok |-> TRUE, names |-> <<"A", "B">>,
       entries |-> {[package |-> "A", version |-> 1, architecture |-> "All",
                     depends |-> <<Dep("B", {"GreaterOrEqual"}, {2}), Dep("C", {}, {})>>,
                     source |-> {"a-src"}, link |-> "pool/gone.deb"],
                    [package |-> "B", version |-> 1, architecture |-> architecture,
                     depends |-> <<>>, source |-> {}, link |-> "pool/gone.deb"]}],
      \* the index lists a name it cannot resolve
      [ok |-> TRUE, names |-> <<"ghost", "A">>,
       entries |-> {[package |-> "A", version |-> 1, architecture |-> "All",
                     depends |-> <<>>, source |-> {"a-src"}, link |-> "pool/a.deb"]}] }

\* VersionRelation applied to two versions (ordered as Debian orders them).
Related(relation, have, want) ==
    CASE relation = "Exact" -> have = want
      [] relation = "LessThan" -> have < want
      [] relation = "LessOrEqual" -> have <= want
      [] relation = "GreaterThan" -> have > want
      [] relation = "GreaterOrEqual" -> have >= want
      [] OTHER -> TRUE

\* Whether an index entry satisfies a constraint (a PackageVersion).
Satisfies(entry, vd) ==
    /\ entry.package = vd.name
    /\ \A a \in vd.architecture :
          "architecture" \in DOMAIN entry => entry.architecture = a
    /\ \A r \in vd.relation : \A v \in vd.version : Related(r, entry.version, v)

\* index.get(name, version): Some entry of that name satisfying the
\* constraint when one is given, None if there is none.  Of several it is
\* the one of the highest version (one fixed entry per index and query).
Get(index, name, version) ==
    LET found == {e \in index.entries :
                     e.package = name /\ \A vd \in version : Satisfies(e, vd)}
    IN  IF found = {} THEN {}
        ELSE {CHOOSE e \in found : \A o \in found : e.version >= o.version}

----------------------------------------------------------------------------
VARIABLES
    pc,                \* where the run is
    reqComponents,     \* check_repo's components argument
    reqArchitectures,  \* check_repo's architectures argument
    reqCheckFiles,     \* check_repo's check_files argument
    release,           \* Some release once Release::from_distro answered
    compliant,         \* Some verdict of release.check_compliance()
    components,        \* AptCheck.components
    architectures,     \* AptCheck.architectures
    check_files,       \* AptCheck.check_files
    source_indices,    \* AptCheck.source_indices
    issues,            \* AptCheck.issues
    missing_packages,  \* AptCheck.missing_packages
    missing_sources,   \* AptCheck.missing_sources
    ci,                \* position of the component loops of check
    ai,                \* position of the architecture loop of check
    result,            \* Some value returned by AptCheck::check_repo
    saved,             \* whether result.json was written
    srcRepo,           \* the SourceIndex::new answers given so far
    pkgRepo,           \* the PackageIndex::new answers given so far
    probes,            \* number of get_etag calls made
    units,             \* the units processed so far, in order
    exit_code,         \* Some exit code once main has exited
    first              \* Some report of the first run once a second one began

vars == <<pc, reqComponents, reqArchitectures, reqCheckFiles, release, compliant,
          components, architectures, check_files, source_indices, issues,
          missing_packages, missing_sources, ci, ai, result, saved, srcRepo,
          pkgRepo, probes, units, exit_code, first>>

\* The sequences over S of length at most n.
SeqUpTo(S, n) == UNION {[1..k -> S] : k \in 0..n}

\* A HashMap with one more entry.
Insert(map, key, value) ==
    [k \in DOMAIN map \cup {key} |-> IF k = key THEN value ELSE map[k]]

\* The findings and the probe count, as the unit operators thread them.
Acc(i, mp, ms, p) ==
    [issues |-> i, missing_packages |-> mp, missing_sources |-> ms, probes |-> p]

\* Error, were the message to tell which run of the checker wrote it.
ErrorOfRun(kind, subject) ==
    [kind |-> kind, subject |-> subject, run |-> IF first = {} THEN "first" ELSE "second"]

\* Error::new(&message, ErrorType::Download): what failed, and on what.
Error(kind, subject) == [kind |-> kind, subject |-> subject]

\* The only element of a Some.
Unwrap(option) == CHOOSE x \in option : TRUE

----------------------------------------------------------------------------
(* AptCheck::new                                                           *)

\* parse_architectures, were a name that does not parse left out.
RECURSIVE parse_architectures_lenient(_, _)
parse_architectures_lenient(names, parsed) ==
    IF names = <<>> THEN {parsed}
    ELSE LET arch == from_str(Head(names))
         IN  parse_architectures_lenient(Tail(names),
                 IF arch = {} THEN parsed ELSE Append(parsed, Unwrap(arch)))

\* The loop of AptCheck::new over the architecture names: Some list of the
\* parsed architectures, None as soon as a name does not parse.
RECURSIVE parse_architectures(_, _)
parse_architectures(names, parsed) ==
    IF names = <<>> THEN {parsed}
    ELSE LET arch == from_str(Head(names))
         IN  IF arch = {} THEN {}
             ELSE parse_architectures(Tail(names), Append(parsed, Unwrap(arch)))

\* select_components, were the caller's list ignored.
select_components_of_release(rel, requested) == rel.components

\* The components AptCheck::new selects.
select_components(rel, requested) ==
    IF requested = <<>> THEN rel.components ELSE requested

\* select_architectures, were the release's architectures put before the
\* caller's.
select_architectures_after_release(rel, requested) ==
    IF requested = <<>> THEN {rel.architectures}
    ELSE {rel.architectures \o parsed : parsed \in parse_architectures(requested, <<>>)}

\* The architectures AptCheck::new selects: Some list, or None for Err.
select_architectures(rel, requested) ==
    IF requested = <<>> THEN {rel.architectures}
    ELSE parse_architectures(requested, <<>>)

----------------------------------------------------------------------------
(* AptCheck::check_source_component                                        *)

\* The loop over the links of a source package: each is probed, a failed
\* probe is an issue of the component with the Source architecture.
RECURSIVE probe_links(_, _, _)
probe_links(component, links, acc) ==
    IF links = <<>> THEN acc
    ELSE LET url == Head(links)
             probed == [acc EXCEPT !.probes = @ + 1]
             after == IF get_etag(url) THEN probed
                      ELSE [probed EXCEPT !.issues =
                               Append(@, <<component, Source, Error("file_broken", url)>>)]
         IN  probe_links(component, Tail(links), after)

\* The body of the loop over index.packages() for one source name.
check_source_package(component, index, source, cf, acc) ==
    LET package == Get(index, source, {})
    IN  IF package = {}
        THEN [acc EXCEPT !.issues =
                 Append(@, <<component, Source, Error("source_missing", source)>>)]
        ELSE IF cf THEN probe_links(component, Unwrap(package).links, acc)
             ELSE acc

RECURSIVE source_loop(_, _, _, _, _)
source_loop(component, index, names, cf, acc) ==
    IF names = <<>> THEN acc
    ELSE source_loop(component, index, Tail(names), cf,
                     check_source_package(component, index, Head(names), cf, acc))

\* check_source_component: err is the Err of SourceIndex::new, passed on by
\* `?`; otherwise the findings of the loop and Some index to insert.
\* check_source_component, were the index retained only when the loop
\* over its names recorded nothing.
check_source_component_clean(component, built, cf, acc) ==
    IF ~built.ok THEN [err |-> TRUE, acc |-> acc, index |-> {}]
    ELSE LET after == source_loop(component, built, built.names, cf, acc)
         IN  [err |-> FALSE, acc |-> after,
              index |-> IF after.issues = acc.issues THEN {built} ELSE {}]

check_source_component(component, built, cf, acc) ==
    IF ~built.ok THEN [err |-> TRUE, acc |-> acc, index |-> {}]
    ELSE [err |-> FALSE,
          acc |-> source_loop(component, built, built.names, cf, acc),
          index |-> {built}]

----------------------------------------------------------------------------
(* AptCheck::check_binary_component                                        *)

\* check_file, were the probe made whatever check_files says.
check_file_always(component, package, cf, acc) ==
    LET probed == [acc EXCEPT !.probes = @ + 1]
    IN  IF get_etag(package.link) THEN probed
        ELSE [probed EXCEPT !.issues =
                 Append(@, <<component, Source, Error("file_broken", package.link)>>)]

\* The probe of the deb file of a binary package, made when check_files.
check_file(component, package, cf, acc) ==
    IF cf
    THEN LET probed == [acc EXCEPT !.probes = @ + 1]
         IN  IF get_etag(package.link) THEN probed
             ELSE [probed EXCEPT !.issues =
                      Append(@, <<component, Source, Error("file_broken", package.link)>>)]
    ELSE acc

\* The loop over package.depends: a dependency the same index does not
\* resolve is pushed to missing_packages.
RECURSIVE check_dependencies(_, _, _, _, _)
check_dependencies(component, index, package, depends, acc) ==
    IF depends = <<>> THEN acc
    ELSE LET dependency == Head(depends)
             after == IF Get(index, dependency.name, {dependency}) # {} THEN acc
                      ELSE [acc EXCEPT !.missing_packages =
                               Append(@, <<component, package.package, dependency>>)]
         IN  check_dependencies(component, index, package, Tail(depends), after)

\* check_source, were a component without a source index a missing source.
check_source_or_missing(component, package, sidx, acc) ==
    IF package.source = {} THEN acc
    ELSE LET source == Unwrap(package.source)
             vd == [name |-> source,
                    architecture |-> {package.architecture},
                    relation |-> {"Exact"},
                    version |-> {package.version}]
         IN  IF component \in DOMAIN sidx /\ Get(sidx[component], source, {vd}) # {}
             THEN acc
             ELSE [acc EXCEPT !.missing_sources =
                      Append(@, <<component, package.package, source>>)]

\* check_source, were the source index of any component consulted when the
\* package's own component has none.
check_source_any_component(component, package, sidx, acc) ==
    IF package.source = {} THEN acc
    ELSE LET source == Unwrap(package.source)
             vd == [name |-> source,
                    architecture |-> {package.architecture},
                    relation |-> {"Exact"},
                    version |-> {package.version}]
             consulted == IF component \in DOMAIN sidx THEN {component}
                          ELSE DOMAIN sidx
         IN  IF \A c \in consulted : Get(sidx[c], source, {vd}) # {} THEN acc
             ELSE [acc EXCEPT !.missing_sources =
                      Append(@, <<component, package.package, source>>)]

\* The check of the source of a binary package against the source index of
\* the component, skipped with a warning when the package names no source or
\* the component has no source index.
check_source(component, package, sidx, acc) ==
    IF package.source = {} THEN acc
    ELSE IF component \notin DOMAIN sidx THEN acc
    ELSE LET source == Unwrap(package.source)
             vd == [name |-> source,
                    architecture |-> {package.architecture},
                    relation |-> {"Exact"},
                    version |-> {package.version}]
         IN  IF Get(sidx[component], source, {vd}) # {} THEN acc
             ELSE [acc EXCEPT !.missing_sources =
                      Append(@, <<component, package.package, source>>)]

\* check_binary_package, were a failed probe the end of the check of the
\* package.
check_binary_package_probed_first(component, architecture, index, name, cf, sidx, acc) ==
    LET package == Get(index, name, {})
    IN  IF package = {}
        THEN [acc EXCEPT !.issues =
                 Append(@, <<component, architecture, Error("package_missing", name)>>)]
        ELSE LET p == Unwrap(package)
                 probed == check_file(component, p, cf, acc)
             IN  IF probed.issues # acc.issues THEN probed
                 ELSE check_source(component, p, sidx,
                          check_dependencies(component, index, p, p.depends, probed))

\* The body of the loop over index.packages() for one package name.
check_binary_package(component, architecture, index, name, cf, sidx, acc) ==
    LET package == Get(index, name, {})
    IN  IF package = {}
        THEN [acc EXCEPT !.issues =
                 Append(@, <<component, architecture, Error("package_missing", name)>>)]
        ELSE LET p == Unwrap(package)
             IN  check_source(component, p, sidx,
                     check_dependencies(component, index, p, p.depends,
                         check_file(component, p, cf, acc)))

\* binary_loop, were the loop left at the first name that does not resolve.
RECURSIVE binary_loop_until_missing(_, _, _, _, _, _, _)
binary_loop_until_missing(component, architecture, index, names, cf, sidx, acc) ==
    IF names = <<>> THEN acc
    ELSE LET after == check_binary_package(component, architecture, index,
                                           Head(names), cf, sidx, acc)
         IN  IF Get(index, Head(names), {}) = {} THEN after
             ELSE binary_loop_until_missing(component, architecture, index,
                                            Tail(names), cf, sidx, after)

\* The loop over index.packages().
RECURSIVE binary_loop(_, _, _, _, _, _, _)
binary_loop(component, architecture, index, names, cf, sidx, acc) ==
    IF names = <<>> THEN acc
    ELSE binary_loop(component, architecture, index, Tail(names), cf, sidx,
             check_binary_package(component, architecture, index, Head(names),
                                  cf, sidx, acc))

\* check_binary_component: err is the Err of PackageIndex::new, passed on by
\* `?`; otherwise the findings of the loop.
check_binary_component(component, architecture, built, cf, sidx, acc) ==
    IF ~built.ok THEN [err |-> TRUE, acc |-> acc]
    ELSE [err |-> FALSE,
          acc |-> binary_loop(component, architecture, built, built.names,
                              cf, sidx, acc)]

----------------------------------------------------------------------------
(* AptCheck::check, its two match statements                               *)

\* match_source, were the Err passed on with `?`.
match_source_or_return(component, r) == [abort |-> r.err, acc |-> r.acc]

\* match_source, were the issues begun anew with the failure.
match_source_reset(component, r) ==
    [abort |-> FALSE,
     acc |-> IF r.err
             THEN [r.acc EXCEPT !.issues =
                      <<(<<component, Source, Error("sources_failed", component)>>)>>]
             ELSE r.acc]

\* match self.check_source_component(component): an Err becomes an issue of
\* the component with the Source architecture, and check goes on.
match_source(component, r) ==
    [abort |-> FALSE,
     acc |-> IF r.err
             THEN [r.acc EXCEPT !.issues =
                      Append(@, <<component, Source, Error("sources_failed", component)>>)]
             ELSE r.acc]

\* match_binary, were the Err passed on with `?`.
match_binary_or_return(component, architecture, r) == [abort |-> r.err, acc |-> r.acc]

\* match self.check_binary_component(component, architecture): an Err
\* becomes an issue of the component and the architecture, and check goes on.
match_binary(component, architecture, r) ==
    [abort |-> FALSE,
     acc |-> IF r.err
             THEN [r.acc EXCEPT !.issues =
                      Append(@, <<component, architecture,
                                  Error("binary_failed", component)>>)]
             ELSE r.acc]

\* success, were the missing sources left out of it.
success_without_sources(i, mp, ms) == i = <<>> /\ mp = <<>>

\* The value AptCheck::check_repo returns.
success(i, mp, ms) == i = <<>> /\ mp = <<>> /\ ms = <<>>

----------------------------------------------------------------------------
(* The run: lib.rs check_repo, then the steps of AptCheck::check_repo      *)

EmptyMap == [k \in {} |-> {}]

Init ==
    /\ pc = "from_distro"
    /\ reqComponents \in SeqUpTo(ComponentNames, MaxSel)
    /\ reqArchitectures \in SeqUpTo(ArchNames, MaxSel)
    /\ reqCheckFiles \in BOOLEAN
    /\ release = {}
    /\ compliant = {}
    /\ components = <<>>
    /\ architectures = <<>>
    /\ check_files = FALSE
    /\ source_indices = EmptyMap
    /\ issues = <<>>
    /\ missing_packages = <<>>
    /\ missing_sources = <<>>
    /\ ci = 1
    /\ ai = 1
    /\ result = {}
    /\ saved = FALSE
    /\ srcRepo = EmptyMap
    /\ pkgRepo = EmptyMap
    /\ probes = 0
    /\ units = <<>>
    /\ exit_code = {}
    /\ first = {}

\* lib.rs check_repo: Release::from_distro(distro).await? yields the release
\* or fails, and then check_repo returns the error.
FromDistro ==
    /\ pc = "from_distro"
    /\ UNCHANGED <<exit_code, first>>
    /\ \E ok \in BOOLEAN :
          /\ first # {} => ok
          /\ IF ok THEN release' = {TheRelease} /\ pc' = "new"
             ELSE release' = {} /\ pc' = "failed"
    /\ UNCHANGED <<reqComponents, reqArchitectures, reqCheckFiles, compliant,
                   components, architectures, check_files, source_indices,
                   issues, missing_packages, missing_sources, ci, ai, result,
                   saved, srcRepo, pkgRepo, probes, units>>

\* AptCheck::new(release, components, architectures, check_files)?: the
\* selection is fixed, the collections are empty; an architecture name that
\* does not parse makes check_repo return the error.
New ==
    /\ pc = "new"
    /\ UNCHANGED <<exit_code, first>>
    /\ LET rel == Unwrap(release)
           archs == select_architectures(rel, reqArchitectures)
       IN  IF archs = {}
           THEN /\ pc' = "failed"
                /\ UNCHANGED <<components, architectures, check_files>>
           ELSE /\ pc' = "compliance"
                /\ components' = select_components(rel, reqComponents)
                /\ architectures' = Unwrap(archs)
                /\ check_files' = reqCheckFiles
    /\ source_indices' = EmptyMap
    /\ issues' = <<>>
    /\ missing_packages' = <<>>
    /\ missing_sources' = <<>>
    /\ UNCHANGED <<reqComponents, reqArchitectures, reqCheckFiles, release,
                   compliant, ci, ai, result, saved, srcRepo, pkgRepo, probes,
                   units>>

\* AptCheck::check_repo, its first step: the compliance verdict is logged.
Compliance ==
    /\ pc = "compliance"
    /\ UNCHANGED <<exit_code, first>>
    /\ \E verdict \in BOOLEAN :
          /\ \A f \in first : f.compliant = {verdict}
          /\ compliant' = {verdict}
    /\ pc' = "sources"
    /\ ci' = 1
    /\ UNCHANGED <<reqComponents, reqArchitectures, reqCheckFiles, release,
                   components, architectures, check_files, source_indices,
                   issues, missing_packages, missing_sources, ai, result,
                   saved, srcRepo, pkgRepo, probes, units>>

\* NextComponent, were the first loop left after its first turn.
NextComponentOnce == pc' = "binaries" /\ ci' = 1 /\ ai' = 1

\* The step of the first loop of check over the components; the second loop
\* begins when the first is through.
NextComponent ==
    IF ci < Len(components) THEN pc' = "sources" /\ ci' = ci + 1 /\ UNCHANGED ai
    ELSE pc' = "binaries" /\ ci' = 1 /\ ai' = 1

\* AptCheck::check, one turn of its first loop: the source check of
\* components[ci] and the match on what it returned.
SourceUnit ==
    /\ pc = "sources"
    /\ UNCHANGED <<exit_code, first>>
    /\ LET component == components[ci]
       IN  \E built \in SourceIndexChoices :
              /\ component \in DOMAIN srcRepo => built = srcRepo[component]
              /\ LET r == check_source_component(component, built, check_files,
                              Acc(issues, missing_packages, missing_sources, probes))
                     m == match_source(component, r)
                 IN  /\ issues' = m.acc.issues
                     /\ missing_packages' = m.acc.missing_packages
                     /\ missing_sources' = m.acc.missing_sources
                     /\ probes' = m.acc.probes
                     /\ source_indices' =
                           IF r.index = {} THEN source_indices
                           ELSE Insert(source_indices, component, Unwrap(r.index))
                     /\ IF m.abort THEN pc' = "failed" /\ UNCHANGED <<ci, ai>>
                        ELSE NextComponent
              /\ srcRepo' = Insert(srcRepo, component, built)
              /\ units' = Append(units, [kind |-> "source", component |-> component,
                                         architecture |-> Source])
    /\ UNCHANGED <<reqComponents, reqArchitectures, reqCheckFiles, release,
                   compliant, components, architectures, check_files, result,
                   saved, pkgRepo>>

\* is_source, were no architecture taken for Source.
is_source_never(architecture) == FALSE

\* architecture == &Architecture::Source, the test of the second loop.
is_source(architecture) == architecture = Source

\* The step of the loops of check over components and architectures.
NextPair ==
    IF ai < Len(architectures) THEN pc' = "binaries" /\ ai' = ai + 1 /\ UNCHANGED ci
    ELSE IF ci < Len(components) THEN pc' = "binaries" /\ ci' = ci + 1 /\ ai' = 1
    ELSE pc' = "cross_check" /\ UNCHANGED <<ci, ai>>

\* AptCheck::check, one turn of its second loop for the Source architecture:
\* continue.
BinarySkip ==
    /\ pc = "binaries"
    /\ UNCHANGED <<exit_code, first>>
    /\ is_source(architectures[ai])
    /\ NextPair
    /\ UNCHANGED <<reqComponents, reqArchitectures, reqCheckFiles, release,
                   compliant, components, architectures, check_files,
                   source_indices, issues, missing_packages, missing_sources,
                   result, saved, srcRepo, pkgRepo, probes, units>>

\* AptCheck::check, one turn of its second loop: the binary check of
\* (components[ci], architectures[ai]) and the match on what it returned.
BinaryUnit ==
    /\ pc = "binaries"
    /\ UNCHANGED <<exit_code, first>>
    /\ ~is_source(architectures[ai])
    /\ LET component == components[ci]
           architecture == architectures[ai]
           pair == <<component, architecture>>
       IN  \E built \in PackageIndexChoices(architecture) :
              /\ pair \in DOMAIN pkgRepo => built = pkgRepo[pair]
              /\ LET r == check_binary_component(component, architecture, built,
                              check_files, source_indices,
                              Acc(issues, missing_packages, missing_sources, probes))
                     m == match_binary(component, architecture, r)
                 IN  /\ issues' = m.acc.issues
                     /\ missing_packages' = m.acc.missing_packages
                     /\ missing_sources' = m.acc.missing_sources
                     /\ probes' = m.acc.probes
                     /\ IF m.abort THEN pc' = "failed" /\ UNCHANGED <<ci, ai>>
                        ELSE NextPair
              /\ pkgRepo' = Insert(pkgRepo, pair, built)
              /\ units' = Append(units, [kind |-> "binary", component |-> component,
                                         architecture |-> architecture])
    /\ UNCHANGED <<reqComponents, reqArchitectures, reqCheckFiles, release,
                   compliant, components, architectures, check_files,
                   source_indices, result, saved, srcRepo>>

\* AptCheck::cross_check: nothing yet, Ok(()).
CrossCheck ==
    /\ pc = "cross_check"
    /\ UNCHANGED <<exit_code, first>>
    /\ pc' = "finalize"
    /\ UNCHANGED <<reqComponents, reqArchitectures, reqCheckFiles, release,
                   compliant, components, architectures, check_files,
                   source_indices, issues, missing_packages, missing_sources,
                   ci, ai, result, saved, srcRepo, pkgRepo, probes, units>>

\* AptCheck::check_repo, its end: the findings are logged and the boolean
\* is returned.
Finalize ==
    /\ pc = "finalize"
    /\ UNCHANGED <<exit_code, first>>
    /\ result' = {success(issues, missing_packages, missing_sources)}
    /\ pc' = "save"
    /\ UNCHANGED <<reqComponents, reqArchitectures, reqCheckFiles, release,
                   compliant, components, architectures, check_files,
                   source_indices, issues, missing_packages, missing_sources,
                   ci, ai, saved, srcRepo, pkgRepo, probes, units>>

\* lib.rs check_repo: save_as_json(check, "result.json")? writes the report
\* or fails, and then check_repo returns the error.
Save ==
    /\ pc = "save"
    /\ UNCHANGED <<exit_code, first>>
    /\ \E ok \in BOOLEAN :
          IF ok THEN saved' = TRUE /\ pc' = "done"
          ELSE saved' = FALSE /\ pc' = "failed"
    /\ UNCHANGED <<reqComponents, reqArchitectures, reqCheckFiles, release,
                   compliant, components, architectures, check_files,
                   source_indices, issues, missing_packages, missing_sources,
                   ci, ai, result, srcRepo, pkgRepo, probes, units>>

\* The exit code main gives for what check_repo returned: Ok(true),
\* Ok(false) or Err.
exit_code_of(ok, ok_value) == IF ok THEN (IF ok_value THEN 0 ELSE 1) ELSE 2

\* main.rs: the match on check_repo's result, and exit.
Exit ==
    /\ pc \in {"done", "failed"}
    /\ exit_code = {}
    /\ exit_code' = {exit_code_of(pc = "done", pc = "done" /\ Unwrap(result))}
    /\ UNCHANGED <<pc, reqComponents, reqArchitectures, reqCheckFiles, release,
                   compliant, components, architectures, check_files,
                   source_indices, issues, missing_packages, missing_sources,
                   ci, ai, result, saved, srcRepo, pkgRepo, probes, units, first>>

\* The checker is run a second time, on the same arguments and the same
\* repository, after a first run that completed its checks: a new process,
\* the answers of the repository as they were.
Rerun ==
    /\ exit_code # {}
    /\ result # {}
    /\ first = {}
    /\ first' = {[issues |-> issues, missing_packages |-> missing_packages,
                  missing_sources |-> missing_sources, result |-> result,
                  compliant |-> compliant]}
    /\ pc' = "from_distro"
    /\ release' = {}
    /\ compliant' = {}
    /\ components' = <<>>
    /\ architectures' = <<>>
    /\ check_files' = FALSE
    /\ source_indices' = EmptyMap
    /\ issues' = <<>>
    /\ missing_packages' = <<>>
    /\ missing_sources' = <<>>
    /\ ci' = 1
    /\ ai' = 1
    /\ result' = {}
    /\ saved' = FALSE
    /\ probes' = 0
    /\ units' = <<>>
    /\ exit_code' = {}
    /\ UNCHANGED <<reqComponents, reqArchitectures, reqCheckFiles, srcRepo, pkgRepo>>

Next ==
    \/ FromDistro
    \/ New
    \/ Compliance
    \/ SourceUnit
    \/ BinarySkip
    \/ BinaryUnit
    \/ CrossCheck
    \/ Finalize
    \/ Save
    \/ Exit

Spec == Init /\ [][Next]_vars

\* The runs of Spec, each followed by a second run when the first
\* completed its checks.
TwiceNext == Next \/ Rerun

TwiceSpec == Init /\ [][TwiceNext]_vars

\* The run with its steps taken: check_repo is one sequential async function,
\* and every call it awaits resolves or fails.
FairSpec == Spec /\ WF_vars(Next)

----------------------------------------------------------------------------
(* Properties                                                              *)

Range(seq) == {seq[i] : i \in DOMAIN seq}

\* How often x occurs in seq.
Count(seq, x) == Cardinality({i \in DOMAIN seq : seq[i] = x})

\* No component and no architecture is selected twice.
NoRepeats ==
    /\ \A i, j \in DOMAIN components : components[i] = components[j] => i = j
    /\ \A i, j \in DOMAIN architectures : architectures[i] = architectures[j] => i = j

\* The packages of a built index that check_binary_component goes through:
\* what the index resolves of the names it lists.
Resolvable(index) == UNION {Get(index, index.names[i], {}) : i \in DOMAIN index.names}

\* C1: once check_repo has returned a boolean, it is TRUE exactly if the
\* issues, the missing dependencies and the missing sources are all empty,
\* whatever the compliance verdict was.
C1_SuccessIffNoFindings ==
    \A r \in result :
        r <=> (issues = <<>> /\ missing_packages = <<>> /\ missing_sources = <<>>)

\* C1, its case: the release complies, the only findings are missing
\* sources, and FALSE was returned.
C1_Witness ==
    /\ result = {FALSE}
    /\ compliant = {TRUE}
    /\ issues = <<>>
    /\ missing_packages = <<>>
    /\ missing_sources # <<>>

\* C2: after the run, every dependency of a package of a built package
\* index of component c that this index does not resolve is in the missing
\* dependencies exactly once as (c, package, dependency).  Stated here for
\* the selections that name no component and no architecture twice.
C2_ExactlyOneMissingDependency ==
    (result # {} /\ NoRepeats) =>
        \A pair \in DOMAIN pkgRepo :
            \A p \in Resolvable(pkgRepo[pair]) :
                \A i \in DOMAIN p.depends :
                    Get(pkgRepo[pair], p.depends[i].name, {p.depends[i]}) = {}
                        => Count(missing_packages,
                                 <<pair[1], p.package, p.depends[i]>>) = 1

\* C3: after the run, every package of a built package index of component
\* c whose source the source index of c does not hold at the package's own
\* architecture and version is in the missing sources exactly once as
\* (c, package, source).  Stated here for the selections that name no
\* component and no architecture twice.
C3_ExactlyOneMissingSource ==
    (result # {} /\ NoRepeats) =>
        \A pair \in DOMAIN pkgRepo :
            \A p \in Resolvable(pkgRepo[pair]) :
                \A s \in p.source :
                    ( /\ pair[1] \in DOMAIN source_indices
                      /\ ~ \E e \in source_indices[pair[1]].entries :
                              e.package = s /\ e.version = p.version )
                        => Count(missing_sources, <<pair[1], p.package, s>>) = 1

\* C4: a component whose source index was not built has no missing source
\* recorded, whatever its binary packages declare; the issue of the failed
\* source check is all there is of it.
C4_NoSourceIndexNoMissingSource ==
    \A c \in DOMAIN srcRepo :
        ~srcRepo[c].ok =>
            /\ c \notin DOMAIN source_indices
            /\ \A i \in DOMAIN missing_sources : missing_sources[i][1] # c
            /\ \E i \in DOMAIN issues : issues[i][1] = c /\ issues[i][2] = Source

\* C4, its case: the run is over, the source index of a component was not
\* built, and a built package index of that component holds a package that
\* declares a source.
C4_Witness ==
    /\ pc = "done"
    /\ \E pair \in DOMAIN pkgRepo :
          /\ ~srcRepo[pair[1]].ok
          /\ \E p \in Resolvable(pkgRepo[pair]) : p.source # {}

\* The unit of a source check and the unit of a binary check, as `units`
\* records them.
SourceUnitOf(c) == [kind |-> "source", component |-> c, architecture |-> Source]
BinaryUnitOf(c, a) == [kind |-> "binary", component |-> c, architecture |-> a]

\* The source units of the selection, in the order of the selection.
ExpectedSourceUnits == [i \in DOMAIN components |-> SourceUnitOf(components[i])]

\* The binary units of the selection from position (i, j) on, in the order
\* of the selection: every pair whose architecture is not Source.
RECURSIVE ExpectedBinaryUnitsFrom(_, _)
ExpectedBinaryUnitsFrom(i, j) ==
    IF i > Len(components) THEN <<>>
    ELSE IF j > Len(architectures) THEN ExpectedBinaryUnitsFrom(i + 1, 1)
    ELSE (IF architectures[j] = Source THEN <<>>
          ELSE <<BinaryUnitOf(components[i], architectures[j])>>)
         \o ExpectedBinaryUnitsFrom(i, j + 1)

ExpectedBinaryUnits == ExpectedBinaryUnitsFrom(1, 1)

\* AptCheck::check has returned.
CheckReturned ==
    \/ pc \in {"cross_check", "finalize", "save", "done"}
    \/ pc = "failed" /\ result # {}

\* The issues tagged with component c and architecture a.
IssuesOf(c, a) == {i \in DOMAIN issues : issues[i][1] = c /\ issues[i][2] = a}

\* This step is the binary check of a pair whose package index is not built.
FailedBinaryStep ==
    /\ pc = "binaries"
    /\ architectures[ai] # Source
    /\ ~pkgRepo'[<<components[ci], architectures[ai]>>].ok

\* C5: the binary check of a pair whose package index cannot be built
\* records one issue tagged with the component and the architecture of the
\* pair and nothing else, and check goes on: when it has returned, every
\* selected pair has been processed, in the order of the selection, and the
\* issues tagged with a failed pair are one for each time it was selected.
C5_FailedPairIsolated ==
    /\ [][FailedBinaryStep =>
            /\ issues' = Append(issues, <<components[ci], architectures[ai],
                                          Error("binary_failed", components[ci])>>)
            /\ missing_packages' = missing_packages
            /\ missing_sources' = missing_sources
            /\ probes' = probes
            /\ pc' \in {"binaries", "cross_check"}]_vars
    /\ [](CheckReturned =>
            /\ SelectSeq(units, LAMBDA u : u.kind = "binary") = ExpectedBinaryUnits
            /\ \A pair \in DOMAIN pkgRepo :
                  ~pkgRepo[pair].ok =>
                      Cardinality(IssuesOf(pair[1], pair[2]))
                          = Count(units, BinaryUnitOf(pair[1], pair[2])))

\* C5, its case: check has returned, the package index of the second of
\* four pairs was not built, and the three other pairs were checked on
\* built indices.
C5_Witness ==
    /\ CheckReturned
    /\ Len(ExpectedBinaryUnits) = 4
    /\ \A k \in 1..4 :
          pkgRepo[<<ExpectedBinaryUnits[k].component,
                    ExpectedBinaryUnits[k].architecture>>].ok <=> k # 2
    /\ Cardinality(IssuesOf(ExpectedBinaryUnits[2].component,
                            ExpectedBinaryUnits[2].architecture)) = 1

\* C6: a component whose source index cannot be built gets an issue tagged
\* with it and the Source architecture; the source checks of all selected
\* components are made all the same, in the order of the selection, then
\* the binary checks of all selected pairs, those of that component too; and
\* once the checks have begun, check_repo fails only after AptCheck::check_repo
\* has returned its boolean.
C6_FailedSourceContained ==
    /\ pc \in {"binaries", "cross_check", "finalize", "save", "done"} =>
          /\ SelectSeq(units, LAMBDA u : u.kind = "source") = ExpectedSourceUnits
          /\ \A c \in DOMAIN srcRepo :
                ~srcRepo[c].ok =>
                    \E i \in DOMAIN issues :
                        issues[i] = <<c, Source, Error("sources_failed", c)>>
    /\ pc \in {"cross_check", "finalize", "save", "done"} =>
          \A i \in DOMAIN components : \A j \in DOMAIN architectures :
              architectures[j] # Source =>
                  BinaryUnitOf(components[i], architectures[j]) \in Range(units)
    /\ pc = "failed" => (units = <<>> \/ result # {})

\* C6, its case: the run is over, the source index of the first of two
\* components was not built, that of the second was, and a package index of
\* the first component was built and checked.
C6_Witness ==
    /\ pc = "done"
    /\ Len(components) = 2
    /\ components[1] # components[2]
    /\ ~srcRepo[components[1]].ok
    /\ srcRepo[components[2]].ok
    /\ \E pair \in DOMAIN pkgRepo : pair[1] = components[1] /\ pkgRepo[pair].ok

\* The selection asked for: the caller's lists, or those of the release
\* when the caller's are empty.
RequestedComponents ==
    IF reqComponents = <<>> THEN Range(TheRelease.components)
    ELSE Range(reqComponents)

RequestedArchitectures ==
    IF reqArchitectures = <<>> THEN Range(TheRelease.architectures)
    ELSE UNION {from_str(reqArchitectures[i]) : i \in DOMAIN reqArchitectures}

\* Every finding names a component of the selection asked for.
FindingsOfRequestedComponents ==
    /\ \A i \in DOMAIN issues : issues[i][1] \in RequestedComponents
    /\ \A i \in DOMAIN missing_packages : missing_packages[i][1] \in RequestedComponents
    /\ \A i \in DOMAIN missing_sources : missing_sources[i][1] \in RequestedComponents

\* C7 as claimed: in every state, every finding names a component of the
\* selection asked for and every issue names an architecture of the
\* selection asked for.
C7_FindingsWithinSelection ==
    /\ FindingsOfRequestedComponents
    /\ \A i \in DOMAIN issues : issues[i][2] \in RequestedArchitectures

\* C7 as amended: in every state, every finding names a component of the
\* selection asked for and every issue names an architecture of the
\* selection asked for or the Source sentinel.
C7_FindingsWithinSelectionOrSource ==
    /\ FindingsOfRequestedComponents
    /\ \A i \in DOMAIN issues : issues[i][2] \in RequestedArchitectures \cup {Source}

\* C7, its case: the caller named the architectures, Source not among
\* them; there are an issue tagged with a named architecture, an issue
\* tagged with Source, a missing dependency and a missing source.
C7_Witness ==
    /\ reqArchitectures # <<>>
    /\ Source \notin RequestedArchitectures
    /\ \E i \in DOMAIN issues : issues[i][2] \in RequestedArchitectures
    /\ \E i \in DOMAIN issues : issues[i][2] = Source
    /\ missing_packages # <<>>
    /\ missing_sources # <<>>

\* The index with every unreachable link replaced by a reachable one.
Repaired(index) ==
    LET fix(url) == IF get_etag(url) THEN url ELSE "pool/repaired"
    IN  [index EXCEPT !.entries =
            {IF "links" \in DOMAIN e
             THEN [e EXCEPT !.links = [k \in DOMAIN e.links |-> fix(e.links[k])]]
             ELSE [e EXCEPT !.link = fix(e.link)] : e \in index.entries}]

\* The three finding collections, side by side.
Findings(i, mp, ms) == <<i, mp, ms>>

\* C8: when check_files is false, get_etag is never called and no issue of
\* a broken file is recorded; each source check and each binary check
\* records what it would record with check_files true on the same index
\* with every link reachable.
C8_NoProbeWithoutCheckFiles ==
    /\ [](~reqCheckFiles =>
            /\ probes = 0
            /\ \A i \in DOMAIN issues : issues[i][3].kind # "file_broken")
    /\ [][(~reqCheckFiles /\ pc = "sources") =>
            LET c == components[ci]
                m == match_source(c,
                        check_source_component(c, Repaired(srcRepo'[c]), TRUE,
                            Acc(issues, missing_packages, missing_sources, 0)))
            IN  Findings(issues', missing_packages', missing_sources')
                  = Findings(m.acc.issues, m.acc.missing_packages, m.acc.missing_sources)]_vars
    /\ [][(~reqCheckFiles /\ pc = "binaries" /\ architectures[ai] # Source) =>
            LET c == components[ci]
                a == architectures[ai]
                m == match_binary(c, a,
                        check_binary_component(c, a, Repaired(pkgRepo'[<<c, a>>]), TRUE,
                            source_indices,
                            Acc(issues, missing_packages, missing_sources, 0)))
            IN  Findings(issues', missing_packages', missing_sources')
                  = Findings(m.acc.issues, m.acc.missing_packages, m.acc.missing_sources)]_vars

\* C8, its case: check_files is false, the run is over, and every link of
\* every index that was built is unreachable.
C8_Witness ==
    /\ ~reqCheckFiles
    /\ pc = "done"
    /\ \E c \in DOMAIN srcRepo : srcRepo[c].ok
    /\ \E pair \in DOMAIN pkgRepo : pkgRepo[pair].ok
    /\ \A c \in DOMAIN srcRepo : \A e \in srcRepo[c].entries :
          \A k \in DOMAIN e.links : ~get_etag(e.links[k])
    /\ \A pair \in DOMAIN pkgRepo : \A e \in pkgRepo[pair].entries : ~get_etag(e.link)

\* C9: once the AptCheck is constructed, check_repo returns a boolean: the
\* run, with its steps taken, gets from the compliance check to the returned
\* boolean; no step from there to the return fails; and when the boolean is
\* returned the units processed are the source checks of the selected
\* components followed by the binary checks of the selected pairs.
C9_CheckRepoReturnsBoolean ==
    /\ (pc = "compliance") ~> (result # {})
    /\ [][(pc \in {"compliance", "sources", "binaries", "cross_check", "finalize"})
              => (pc' # "failed")]_vars
    /\ [](result # {} =>
            /\ result \in {{TRUE}, {FALSE}}
            /\ units = ExpectedSourceUnits \o ExpectedBinaryUnits)

\* C9, its case: the boolean is returned after a source index and a package
\* index were not built, a listed source and a listed package were not
\* resolved and a probe failed.
C9_Witness ==
    /\ result # {}
    /\ \E c \in DOMAIN srcRepo : ~srcRepo[c].ok
    /\ \E pair \in DOMAIN pkgRepo : ~pkgRepo[pair].ok
    /\ \E i \in DOMAIN issues : issues[i][3].kind = "source_missing"
    /\ \E i \in DOMAIN issues : issues[i][3].kind = "package_missing"
    /\ \E i \in DOMAIN issues : issues[i][3].kind = "file_broken"

\* The caller named an architecture that does not parse.
UnparseableArchitecture ==
    \E i \in DOMAIN reqArchitectures : from_str(reqArchitectures[i]) = {}

\* C10: when the release cannot be obtained or a named architecture does
\* not parse, check_repo fails before any check: the run never gets past
\* AptCheck::new, no index is built, no probe is made, nothing is found,
\* nothing is returned by AptCheck::check_repo and nothing is saved.
C10_HardInputErrorBeforeChecks ==
    (UnparseableArchitecture \/ (pc = "failed" /\ release = {})) =>
        /\ pc \in {"from_distro", "new", "failed"}
        /\ srcRepo = EmptyMap
        /\ pkgRepo = EmptyMap
        /\ source_indices = EmptyMap
        /\ probes = 0
        /\ units = <<>>
        /\ issues = <<>>
        /\ missing_packages = <<>>
        /\ missing_sources = <<>>
        /\ result = {}
        /\ ~saved

\* C10, its case: the release was obtained, the caller's second
\* architecture does not parse, and check_repo has failed.
C10_Witness ==
    /\ pc = "failed"
    /\ release # {}
    /\ Len(reqArchitectures) = 2
    /\ from_str(reqArchitectures[1]) # {}
    /\ from_str(reqArchitectures[2]) = {}

\* C11: the exit code of the process is 2 only when check_repo failed before
\* AptCheck::check_repo returned a report, and a run whose checks completed
\* exits with 0 when the three collections of findings are empty and with 1
\* otherwise.
C11_ExitCodeConvention ==
    exit_code # {} =>
        /\ (2 \in exit_code => result = {})
        /\ (result # {} =>
               exit_code = {IF Findings(issues, missing_packages, missing_sources)
                                  = Findings(<<>>, <<>>, <<>>)
                            THEN 0 ELSE 1})

\* A binary unit has begun: a package index was asked for or a binary unit
\* was processed.
BinaryPhaseBegun ==
    \/ pkgRepo # EmptyMap
    \/ \E k \in DOMAIN units : units[k].kind = "binary"

\* C12: no package index is built and no binary package is checked until
\* the source check of every selected component has finished, with an index
\* or with a contained failure: once a binary unit has begun, the run has
\* left the first loop, the units processed begin with the source units of
\* all selected components in order, each of them has had its source index
\* asked for, and only binary units follow; so each binary unit comes after
\* the source unit of its own component.
C12_SourcePhaseBeforeBinaryPhase ==
    BinaryPhaseBegun =>
        /\ pc \notin {"from_distro", "new", "compliance", "sources"}
        /\ Len(units) > Len(components)
        /\ SubSeq(units, 1, Len(components)) = ExpectedSourceUnits
        /\ \A c \in Range(components) : c \in DOMAIN srcRepo
        /\ \A k \in DOMAIN units :
              /\ k > Len(components) => units[k].kind = "binary"
              /\ units[k].kind = "binary" =>
                    \E j \in 1..(k - 1) : units[j] = SourceUnitOf(units[k].component)

\* C12, its case: two components are selected, the source index of the
\* first could not be built and that of the second could, and the second
\* loop has processed a binary unit of each.
C12_Witness ==
    /\ pc = "binaries"
    /\ Len(components) = 2
    /\ ~srcRepo[components[1]].ok
    /\ srcRepo[components[2]].ok
    /\ \A i \in 1..2 : \E k \in DOMAIN units :
          units[k].kind = "binary" /\ units[k].component = components[i]

\* The source check of component c has run, and its index was built.
SourceCheckIndexed(c) ==
    /\ SourceUnitOf(c) \in Range(units)
    /\ c \in DOMAIN srcRepo
    /\ srcRepo[c].ok

\* C13: at every point of a run, source_indices holds an entry for a
\* component exactly when the source check of that component has run and
\* its index was built, and the entry is the index that was built, whatever
\* issues the check of its names and links recorded; a component whose
\* index could not be built has no entry.
C13_SourceIndexIffSourceCheckIndexed ==
    /\ \A c \in DOMAIN source_indices :
          SourceCheckIndexed(c) /\ source_indices[c] = srcRepo[c]
    /\ \A c \in Range(TheRelease.components) \cup ComponentNames :
          SourceCheckIndexed(c) => c \in DOMAIN source_indices

\* C13, its case: with check_files set, the source check of one component
\* recorded a listed source that does not resolve, that of another recorded
\* broken links, and both indices are retained.
C13_Witness ==
    /\ Len(components) = 2
    /\ pc = "binaries"
    /\ \E i \in DOMAIN issues :
          /\ issues[i][1] = components[1]
          /\ issues[i][3].kind = "source_missing"
    /\ \E i \in DOMAIN issues :
          /\ issues[i][1] = components[2]
          /\ issues[i][3].kind = "file_broken"
    /\ DOMAIN source_indices = {components[1], components[2]}
    /\ units = ExpectedSourceUnits

\* s is t or a beginning of t.
IsPrefix(s, t) == Len(s) <= Len(t) /\ SubSeq(t, 1, Len(s)) = s

\* C14: every step of a run leaves each of issues, missing_packages and
\* missing_sources as it was or with new entries after the old ones, which
\* stay in place and unaltered; and once AptCheck::check_repo has returned,
\* the three collections hold all that was recorded and change no more.
C14_FindingsAppendOnly ==
    [][/\ IsPrefix(issues, issues')
       /\ IsPrefix(missing_packages, missing_packages')
       /\ IsPrefix(missing_sources, missing_sources')
       /\ (result # {} =>
              /\ issues' = issues
              /\ missing_packages' = missing_packages
              /\ missing_sources' = missing_sources
              /\ result' = result)]_vars

\* C14, its case: check_repo has returned after a source unit recorded
\* broken links, a later source unit failed, and binary units recorded
\* missing dependencies and missing sources.
C14_Witness ==
    /\ result # {}
    /\ Len(issues) >= 3
    /\ issues[1][3].kind = "file_broken"
    /\ issues[1][2] = Source
    /\ issues[3][3].kind = "sources_failed"
    /\ missing_packages # <<>>
    /\ missing_sources # <<>>

Selected ==
    \/ pc \in {"compliance", "sources", "binaries", "cross_check", "finalize",
               "save", "done"}
    \/ pc = "failed" /\ result # {}

\* C16: an empty list of components selects the components of the release
\* and an empty list of architectures the architectures of the release, in
\* the release's order; a list that is not empty selects the caller's
\* entries in the caller's order, whatever the other list is; and the units
\* of the run are the source units of the selected components followed by
\* the binary units of the selected pairs, no more and no fewer.
C16_SelectionFromCallerOrRelease ==
    Selected =>
        /\ components = IF reqComponents = <<>> THEN TheRelease.components
                        ELSE reqComponents
        /\ architectures =
              IF reqArchitectures = <<>> THEN TheRelease.architectures
              ELSE [i \in DOMAIN reqArchitectures |->
                        Unwrap(from_str(reqArchitectures[i]))]
        /\ CheckReturned => units = ExpectedSourceUnits \o ExpectedBinaryUnits

\* C16, its case: the caller named no component and the architectures
\* source and amd64, in that order, and the run is through: the components
\* are the release's two, the architectures the caller's two.
C16_Witness ==
    /\ pc = "done"
    /\ reqComponents = <<>>
    /\ reqArchitectures = <<"source", "amd64">>
    /\ components = <<"main", "contrib">>
    /\ architectures = <<Source, "Amd64">>
    /\ Len(units) = 4

\* What a step appended to a collection.
Added(before, after) == SubSeq(after, Len(before) + 1, Len(after))

\* The step is the binary unit of the pair, and its index was built.
BinaryUnitStep(pair) ==
    /\ units' = Append(units, BinaryUnitOf(pair[1], pair[2]))
    /\ pair \in DOMAIN pkgRepo'
    /\ pkgRepo'[pair].ok

\* The places of the names an index lists and does not resolve, and of
\* those it resolves.
Unresolved(index) == {k \in DOMAIN index.names : Get(index, index.names[k], {}) = {}}
Resolved(index) == DOMAIN index.names \ Unresolved(index)

\* The source of the package is sought in the source index of the component
\* and is not there.
SourceSoughtInVain(c, package) ==
    /\ package.source # {}
    /\ c \in DOMAIN source_indices
    /\ Get(source_indices[c], Unwrap(package.source),
           {[name |-> Unwrap(package.source),
             architecture |-> {package.architecture},
             relation |-> {"Exact"},
             version |-> {package.version}]}) = {}

\* C17: a binary unit whose index was built records, for every name the
\* index lists and does not resolve, one issue of the unit's component and
\* the unit's own architecture, and no other issue of that kind; it makes
\* no probe for such a name and records no missing dependency and no
\* missing source under it; and the names the index resolves are checked
\* all the same: each is probed when check_files is set, and its source,
\* when sought in vain, is recorded as missing.
C17_UnresolvedNameIsOneIssue ==
    [][\A c \in Range(TheRelease.components), a \in Range(TheRelease.architectures) :
          BinaryUnitStep(<<c, a>>) =>
              LET index == pkgRepo'[<<c, a>>]
                  newIssues == Added(issues, issues')
                  newPackages == Added(missing_packages, missing_packages')
                  newSources == Added(missing_sources, missing_sources')
              IN  /\ \A k \in Unresolved(index) :
                        /\ Count(newIssues,
                                 <<c, a, Error("package_missing", index.names[k])>>)
                              = Cardinality({j \in Unresolved(index) :
                                                index.names[j] = index.names[k]})
                        /\ \A i \in DOMAIN newPackages :
                              newPackages[i][2] # index.names[k]
                        /\ \A i \in DOMAIN newSources :
                              newSources[i][2] # index.names[k]
                  /\ Cardinality({i \in DOMAIN newIssues :
                                     newIssues[i][3].kind = "package_missing"})
                        = Cardinality(Unresolved(index))
                  /\ probes' = probes + (IF check_files
                                         THEN Cardinality(Resolved(index)) ELSE 0)
                  /\ \A k \in Resolved(index) :
                        LET package == Unwrap(Get(index, index.names[k], {}))
                        IN  SourceSoughtInVain(c, package) =>
                               <<c, package.package, Unwrap(package.source)>>
                                   \in Range(newSources)]_vars

\* C17, its case: with check_files set, the last unit was a binary unit
\* whose index lists a name it does not resolve before one it resolves; the
\* issue of the first is recorded under the unit's architecture, and the
\* second was probed and its source recorded as missing.
C17_Witness ==
    /\ check_files
    /\ units # <<>>
    /\ LET unit == units[Len(units)]
           pair == <<unit.component, unit.architecture>>
       IN  /\ unit.kind = "binary"
           /\ pkgRepo[pair].ok
           /\ pkgRepo[pair].names = <<"ghost", "A">>
           /\ Count(issues, <<pair[1], pair[2], Error("package_missing", "ghost")>>) = 1
           /\ missing_sources # <<>>
           /\ missing_sources[Len(missing_sources)] = <<pair[1], "A", "a-src">>
           /\ Len(units) = Len(components) + 1
           /\ probes > 0

\* The places of the names an index resolves to a package whose link cannot
\* be reached.
BrokenLink(index) ==
    {k \in Resolved(index) :
        ~get_etag(Unwrap(Get(index, index.names[k], {})).link)}

\* C18: with check_files set, a binary unit records one issue for every
\* package of its index whose link cannot be reached, each with the unit's
\* component and the Source architecture, never the architecture of the
\* index; and the dependencies and the source of such a package are checked
\* all the same: each dependency the index does not resolve is recorded as
\* a missing dependency, and the source, when sought in vain, as a missing
\* source.
C18_BrokenLinkIsOneSourceIssue ==
    [][\A c \in Range(TheRelease.components), a \in Range(TheRelease.architectures) :
          (check_files /\ BinaryUnitStep(<<c, a>>)) =>
              LET index == pkgRepo'[<<c, a>>]
                  newIssues == Added(issues, issues')
                  newPackages == Added(missing_packages, missing_packages')
                  newSources == Added(missing_sources, missing_sources')
              IN  /\ Cardinality({i \in DOMAIN newIssues :
                                     newIssues[i][3].kind = "file_broken"})
                        = Cardinality(BrokenLink(index))
                  /\ \A i \in DOMAIN newIssues :
                        newIssues[i][3].kind = "file_broken" =>
                            /\ newIssues[i][1] = c
                            /\ newIssues[i][2] = Source
                            /\ newIssues[i][2] # a
                  /\ \A k \in BrokenLink(index) :
                        LET package == Unwrap(Get(index, index.names[k], {}))
                        IN  /\ <<c, Source, Error("file_broken", package.link)>>
                                  \in Range(newIssues)
                            /\ \A d \in DOMAIN package.depends :
                                  Get(index, package.depends[d].name,
                                      {package.depends[d]}) = {} =>
                                      <<c, package.package, package.depends[d]>>
                                          \in Range(newPackages)
                            /\ SourceSoughtInVain(c, package) =>
                                  <<c, package.package, Unwrap(package.source)>>
                                      \in Range(newSources)]_vars

\* C18, its case: with check_files set, the last unit was a binary unit of
\* an architecture other than Source whose package A has a link that cannot
\* be reached; the issue is recorded under Source, and the two unresolved
\* dependencies of A and its missing source are recorded too.
C18_Witness ==
    /\ check_files
    /\ units # <<>>
    /\ LET unit == units[Len(units)]
           pair == <<unit.component, unit.architecture>>
       IN  /\ unit.kind = "binary"
           /\ Len(units) = Len(components) + 1
           /\ pkgRepo[pair].ok
           /\ BrokenLink(pkgRepo[pair]) # {}
           /\ <<pair[1], Source, Error("file_broken", "pool/gone.deb")>> \in Range(issues)
           /\ \A i \in DOMAIN issues : issues[i][2] # pair[2]
           /\ Len(missing_packages) = 2
           /\ \A i \in 1..2 : missing_packages[i][2] = "A"
           /\ missing_sources = <<(<<pair[1], "A", "a-src">>)>>

\* How often the pair of a component and an architecture occurs in the
\* selection: once when neither list repeats an entry.
Occurrences(c, a) ==
    Cardinality({i \in DOMAIN components : components[i] = c})
        * Cardinality({j \in DOMAIN architectures : architectures[j] = a})

\* C19: the second loop builds a package index once for each occurrence in
\* the selection of a pair whose architecture is not Source, so exactly
\* once for each such pair of a selection without repeated entries, and
\* never for Source: no binary unit and no package index has the Source
\* architecture, and the turn of the loop for a pair with Source records no
\* issue, no missing dependency and no missing source, makes no probe and
\* builds nothing.
C19_NoPackageIndexForSource ==
    /\ [](/\ \A k \in DOMAIN units :
                units[k].kind = "binary" => units[k].architecture # Source
          /\ \A pair \in DOMAIN pkgRepo : pair[2] # Source
          /\ CheckReturned =>
                \A c \in Range(components), a \in Range(architectures) :
                    Count(units, BinaryUnitOf(c, a))
                        = IF a = Source THEN 0 ELSE Occurrences(c, a))
    /\ [][(pc = "binaries" /\ architectures[ai] = Source) =>
              /\ issues' = issues
              /\ missing_packages' = missing_packages
              /\ missing_sources' = missing_sources
              /\ probes' = probes
              /\ units' = units
              /\ pkgRepo' = pkgRepo
              /\ source_indices' = source_indices
              /\ pc' \in {"binaries", "cross_check"}]_vars

\* C19, its case: the selection is the release's two components with the
\* architectures amd64 and Source; the run is through with one binary unit
\* for each component, of amd64, whose index was built.
C19_Witness ==
    /\ CheckReturned
    /\ NoRepeats
    /\ Len(components) = 2
    /\ architectures = <<"Amd64", Source>>
    /\ DOMAIN pkgRepo = {<<components[1], "Amd64">>, <<components[2], "Amd64">>}
    /\ \A pair \in DOMAIN pkgRepo : pkgRepo[pair].ok
    /\ Len(units) = 4

\* The map with the entry of component c alone, if it has one.
OnlyEntryOf(map, c) == [k \in DOMAIN map \cap {c} |-> map[k]]

\* C20: source_indices is written only by the turns of the first loop, each
\* of which writes at most the entry of its own component; an entry once
\* written stays as it is; every step of the second loop, of cross_check,
\* of the return and of the saving leaves the map unchanged; and what a
\* binary unit records is what it records with the entry of its own
\* component alone before it.
C20_SourceIndicesWrittenInPhaseOne ==
    [][/\ pc # "sources" => source_indices' = source_indices
       /\ \A c \in DOMAIN source_indices :
             c \in DOMAIN source_indices' /\ source_indices'[c] = source_indices[c]
       /\ pc = "sources" =>
             DOMAIN source_indices' \subseteq DOMAIN source_indices \cup {components[ci]}
       /\ \A c \in Range(TheRelease.components), a \in Range(TheRelease.architectures) :
             units' = Append(units, BinaryUnitOf(c, a)) =>
                 LET own == match_binary(c, a,
                                check_binary_component(c, a, pkgRepo'[<<c, a>>],
                                    check_files, OnlyEntryOf(source_indices, c),
                                    Acc(issues, missing_packages, missing_sources,
                                        probes))).acc
                 IN  /\ issues' = own.issues
                     /\ missing_packages' = own.missing_packages
                     /\ missing_sources' = own.missing_sources
                     /\ probes' = own.probes]_vars

\* C20, its case: of two components the first has no source index and the
\* second has one that lacks the source of package A; the run is through,
\* both components had a binary unit whose index lists A, and the missing
\* source is recorded for the second component only.
C20_Witness ==
    /\ pc = "done"
    /\ Len(components) = 2
    /\ DOMAIN source_indices = {components[2]}
    /\ components[1] # components[2]
    /\ \A i \in 1..2 : \E pair \in DOMAIN pkgRepo :
          /\ pair[1] = components[i]
          /\ pkgRepo[pair].ok
          /\ "A" \in Range(pkgRepo[pair].names)
    /\ missing_sources # <<>>
    /\ \A i \in DOMAIN missing_sources : missing_sources[i][1] = components[2]

====
